---- MODULE Spec2Model ----
(***************************************************************************)
(* biblionotes (src/src/main.rs): a batch pipeline that turns a            *)
(* bibliography and a directory of Markdown notes into one HTML page per   *)
(* annotated entry plus an index page.                                     *)
(*                                                                         *)
(* The program is one sequential run of main().  Each action below is one  *)
(* statement group of main(); pc is the position of the run.  Everything   *)
(* the run reads from its environment (the bibliography, the template, a   *)
(* content file, the outcome of creating or writing an output file) is     *)
(* drawn when the code reads it and recorded, so that a second run over    *)
(* the same inputs (SpecTwoRuns) sees the same answers.                    *)
(***************************************************************************)
EXTENDS Integers, Sequences, FiniteSets, TLC

VARIABLES
    pc,         \* position of the run in main()
    run,        \* 1 for the first run, 2 for the repeated run (SpecTwoRuns)
    args,       \* env::args(): program name followed by the arguments
    entries,    \* result of read_bib: Vec<(String, Option<Entry>)>
    hbs,        \* the registered template "t"
    i,          \* position of the for loop in entries (1-based), 0 before it
    index,      \* the index accumulator: Vec<(link, author, year, title)>
    cur,        \* locals of the iteration in flight (md_contents, body, ...)
    out,        \* the output directory: file name -> contents
    out0,       \* the output directory as the run found it
    wlog,       \* files this run has written successfully, in order
    stderr,     \* lines written to standard error
    bibfile,    \* environment: what opening/reading/parsing the bibliography gives
    templfile,  \* environment: what opening/reading/registering the template gives
    mdfiles,    \* environment: name -> what opening/reading <markdown_dir>/<name> gives
    createOk,   \* environment: loop position -> does File::create succeed there
    writeOk,    \* environment: loop position -> does writeln! succeed there
    out1        \* SpecTwoRuns: the output directory the first run left

vars == <<pc, run, args, entries, hbs, i, index, cur, out, out0, wlog, stderr,
          bibfile, templfile, mdfiles, createOk, writeOk, out1>>

envv == <<bibfile, templfile, mdfiles, createOk, writeOk>>

-----------------------------------------------------------------------------
(* Bounds and input domains *)

MaxEntries == 3

\* citation keys; "index" is a key like any other to the parser
Keys == {"a", "b", "index"}

Unknown == [st |-> "Unknown"]
NoFile  == [exists |-> FALSE]
File(s) == [exists |-> TRUE, data |-> s]

None    == [some |-> FALSE]
Some(t, a, y) == [some |-> TRUE, title |-> t, author |-> a, year |-> y]
Records == {Some("T1", "X", "2020"), Some("T2", "Y", "1999")}

MdTexts == {"note", "\\bad"}

Err       == [ok |-> FALSE]
Ok(v)     == [ok |-> TRUE, val |-> v]

FullArgs == <<"biblionotes", "refs.bib", "page.hbs", "notes", "site", "extra">>
ArgVectors == {SubSeq(FullArgs, 1, n) : n \in 1..6}

RECURSIVE SeqsUpTo(_, _)
SeqsUpTo(S, n) ==
    IF n = 0 THEN {<<>>}
    ELSE LET shorter == SeqsUpTo(S, n - 1)
         IN  shorter \cup {Append(s, x) : s \in {t \in shorter : Len(t) = n - 1}, x \in S}

\* citation keys identify the entries of a bibliography: no key occurs twice
UniqueKeys(es) == \A j, k \in 1..Len(es) : j # k => es[j].key # es[k].key

EntryLists ==
    {es \in SeqsUpTo([key : Keys, entry : Records \cup {None}], MaxEntries) : UniqueKeys(es)}

Positions == 1..(MaxEntries + 1)

-----------------------------------------------------------------------------
(* Pure functions of the program and of its collaborators *)

\* format!("{}.md", &key), line 85
md_name(key) == key \o ".md"

\* format!("{}.html", &key), line 128
html_name(key) == key \o ".html"

\* output_path.join("index.html"), line 152
index_name == "index.html"

MdNames == {md_name(k) : k \in Keys}

OutNames == {html_name(k) : k \in Keys} \cup {index_name}

\* the usage line, lines 158-161
usage == "syntax: biblionotes <bibliography> <template> <markdown_dir> <output_dir>"

\* args.len() == 5, line 57
ArgsAtLeast(a) == Len(a) >= 5

ArgsOk(a) == Len(a) = 5

\* read_bib, lines 20-29: open, read, parse; every failure panics
read_bib_lenient(file) ==
    IF file.st = "Ok" THEN Ok(file.entries) ELSE Ok(<<>>)

read_bib(file) ==
    IF file.st = "Ok" THEN Ok(file.entries) ELSE Err

\* match File::open(md_path) { Err(_) => continue, Ok(f) => f }, lines 87-90:
\* whatever the error of the open is, the entry is skipped
OpenErrors == {"NotFound", "PermissionDenied"}
OpenErrIsSkip(err) == err \in OpenErrors

\* pandoc.execute(), lines 96-108: Markdown to an HTML5 fragment
PandocRejects == {"\\bad"}
pandoc_execute(md) ==
    IF md \in PandocRejects THEN Err ELSE Ok("<p>" \o md \o "</p>\n")

\* the header format!, lines 111-118
page_content(entry, body) ==
    "<header><h1>" \o entry.title \o "</h1><cite>" \o entry.author \o " ("
        \o entry.year \o ") <em>" \o entry.title \o "</em></cite></header>\n" \o body

\* hbs.render("t", &data), lines 124 and 148
TemplGood   == [head |-> "<title>", mid |-> "</title>", tail |-> "<!-- -->", partial |-> FALSE]
TemplBroken == [head |-> "<title>", mid |-> "</title>", tail |-> "<!-- -->", partial |-> TRUE]
Templates   == {TemplGood, TemplBroken}
hbs_render(t, title, content) ==
    IF t.partial THEN Err
    ELSE Ok(t.head \o title \o t.mid \o content \o t.tail)

\* writeln!(file, "{}", s), lines 132 and 155
writeln(s) == s \o "\n"

\* the tuple pushed on the index, lines 135-140
IndexRecordByTitle(name, entry) == <<entry.title, entry.author, entry.year, name>>

IndexRecord(name, entry) == <<name, entry.author, entry.year, entry.title>>

\* make_index, lines 31-53
intro == "<h1>Annotated bibliography</h1>\n<p>This is an annotated bibliography of various papers I find interesting. It is automatically generated from a BibTeX file and an archive of Markdown files.</p>\n<ul class=\\\"nonetype\\\">\n"

index_item(r) ==
    "<li>" \o r[2] \o " (" \o r[3] \o ") <a href=\"" \o r[1] \o "\">" \o r[4] \o "</a>\n"

RECURSIVE index_items(_)
index_items(idx) ==
    IF idx = <<>> THEN "" ELSE index_item(Head(idx)) \o index_items(Tail(idx))

make_index_stamped(idx) ==
    intro \o index_items(idx) \o "</ul>" \o "<!-- build " \o ToString(run) \o " -->"

make_index_nonempty(idx) ==
    IF idx = <<>> THEN "" ELSE intro \o index_items(idx) \o "</ul>"

make_index(idx) == intro \o index_items(idx) \o "</ul>"

index_title == "Annotated bibliography"

-----------------------------------------------------------------------------
(* Initial state *)

NoLocals == [md_contents |-> "", body |-> "", rendered_again |-> "", rendered_index |-> ""]

EmptyDir == [n \in OutNames |-> NoFile]
Dirs     == [OutNames -> {NoFile, File("stale\n")}]

Init ==
    /\ pc = "start"
    /\ run = 1
    /\ args \in ArgVectors
    /\ entries = <<>>
    /\ hbs = TemplGood
    /\ i = 0
    /\ index = <<>>
    /\ cur = NoLocals
    /\ out \in Dirs
    /\ out0 = out
    /\ wlog = <<>>
    /\ stderr = <<>>
    /\ bibfile = Unknown
    /\ templfile = Unknown
    /\ mdfiles = [n \in MdNames |-> Unknown]
    /\ createOk = [p \in Positions |-> Unknown]
    /\ writeOk = [p \in Positions |-> Unknown]
    /\ out1 = EmptyDir

-----------------------------------------------------------------------------
(* What the environment can answer *)

BibFiles ==
    {[st |-> "OpenErr"], [st |-> "ReadErr"], [st |-> "ParseErr"]}
        \cup {[st |-> "Ok", entries |-> es] : es \in EntryLists}

TemplFiles ==
    {[st |-> "OpenErr"], [st |-> "ReadErr"], [st |-> "RegisterErr"]}
        \cup {[st |-> "Ok", templ |-> t] : t \in Templates}

MdFiles ==
    {[st |-> "NotFound"], [st |-> "PermissionDenied"], [st |-> "ReadErr"]}
        \cup {[st |-> "Ok", text |-> t] : t \in MdTexts}

IoResults == {[st |-> "Ok"], [st |-> "Err"]}

\* an answer of the environment: free the first time, the same ever after
Answers(known, r) == known = Unknown \/ known = r

Abort == pc' = "aborted"

-----------------------------------------------------------------------------
(* The run, statement group by statement group *)

\* lines 56-57 and 157-162: the argument count decides between the pipeline
\* and the usage line (the write to standard error is taken to succeed)
CheckArgs ==
    /\ pc = "start"
    /\ IF ArgsOk(args)
       THEN pc' = "read_bib" /\ UNCHANGED stderr
       ELSE pc' = "done" /\ stderr' = Append(stderr, usage)
    /\ UNCHANGED <<run, args, entries, hbs, i, index, cur, out, out0, wlog, out1>>
    /\ UNCHANGED envv

\* line 59, read_bib (lines 20-29)
ReadBib ==
    /\ pc = "read_bib"
    /\ \E f \in BibFiles :
         /\ Answers(bibfile, f)
         /\ bibfile' = f
         /\ LET parsed == read_bib(f)
            IN  IF parsed.ok
                THEN entries' = parsed.val /\ pc' = "register"
                ELSE Abort /\ UNCHANGED entries
    /\ UNCHANGED <<run, args, hbs, i, index, cur, out, out0, wlog, stderr, out1>>
    /\ UNCHANGED <<templfile, mdfiles, createOk, writeOk>>

\* lines 62-77: open, read and register the template; create the empty index
RegisterTemplate ==
    /\ pc = "register"
    /\ \E f \in TemplFiles :
         /\ Answers(templfile, f)
         /\ templfile' = f
         /\ IF f.st = "Ok"
            THEN hbs' = f.templ /\ index' = <<>> /\ i' = 1 /\ pc' = "loop"
            ELSE Abort /\ UNCHANGED <<hbs, index, i>>
    /\ UNCHANGED <<run, args, entries, cur, out, out0, wlog, stderr, out1>>
    /\ UNCHANGED <<bibfile, mdfiles, createOk, writeOk>>

\* line 78: the iterator is exhausted
LoopExit ==
    /\ pc = "loop"
    /\ i > Len(entries)
    /\ pc' = "build_index"
    /\ UNCHANGED <<run, args, entries, hbs, i, index, cur, out, out0, wlog, stderr, out1>>
    /\ UNCHANGED envv

\* lines 78-82: None => continue
SkipNoRecord ==
    /\ pc = "loop"
    /\ i <= Len(entries)
    /\ ~entries[i].entry.some
    /\ i' = i + 1
    /\ UNCHANGED <<pc, run, args, entries, hbs, index, cur, out, out0, wlog, stderr, out1>>
    /\ UNCHANGED envv

\* lines 78-82: Some(entry) => entry
TakeEntry ==
    /\ pc = "loop"
    /\ i <= Len(entries)
    /\ entries[i].entry.some
    /\ pc' = "open_md"
    /\ UNCHANGED <<run, args, entries, hbs, i, index, cur, out, out0, wlog, stderr, out1>>
    /\ UNCHANGED envv

\* lines 85-93: open <markdown_dir>/<key>.md and read it to a string
OpenMd ==
    /\ pc = "open_md"
    /\ LET name == md_name(entries[i].key)
       IN  \E f \in MdFiles :
             /\ Answers(mdfiles[name], f)
             /\ mdfiles' = [mdfiles EXCEPT ![name] = f]
             /\ IF f.st \in OpenErrors
                THEN IF OpenErrIsSkip(f.st)
                     THEN pc' = "loop" /\ i' = i + 1 /\ UNCHANGED cur
                     ELSE Abort /\ UNCHANGED <<i, cur>>
                ELSE IF f.st = "ReadErr"
                     THEN Abort /\ UNCHANGED <<i, cur>>
                     ELSE /\ cur' = [cur EXCEPT !.md_contents = f.text]
                          /\ pc' = "pandoc"
                          /\ UNCHANGED i
    /\ UNCHANGED <<run, args, entries, hbs, index, out, out0, wlog, stderr, out1>>
    /\ UNCHANGED <<bibfile, templfile, createOk, writeOk>>

\* lines 96-108: run pandoc on the contents
RunPandoc ==
    /\ pc = "pandoc"
    /\ LET r == pandoc_execute(cur.md_contents)
       IN  IF r.ok
           THEN cur' = [cur EXCEPT !.body = r.val] /\ pc' = "render"
           ELSE Abort /\ UNCHANGED cur
    /\ UNCHANGED <<run, args, entries, hbs, i, index, out, out0, wlog, stderr, out1>>
    /\ UNCHANGED envv

\* lines 111-125: add the header and expand the template
RenderPage ==
    /\ pc = "render"
    /\ LET entry == entries[i].entry
           r == hbs_render(hbs, entry.title, page_content(entry, cur.body))
       IN  IF r.ok
           THEN cur' = [cur EXCEPT !.rendered_again = r.val] /\ pc' = "create"
           ELSE Abort /\ UNCHANGED cur
    /\ UNCHANGED <<run, args, entries, hbs, i, index, out, out0, wlog, stderr, out1>>
    /\ UNCHANGED envv

\* lines 128-131: File::create truncates or creates <output_dir>/<key>.html
CreateOutput ==
    /\ pc = "create"
    /\ \E r \in IoResults :
         /\ Answers(createOk[i], r)
         /\ createOk' = [createOk EXCEPT ![i] = r]
         /\ IF r.st = "Ok"
            THEN /\ out' = [out EXCEPT ![html_name(entries[i].key)] = File("")]
                 /\ pc' = "write"
            ELSE Abort /\ UNCHANGED out
    /\ UNCHANGED <<run, args, entries, hbs, i, index, cur, out0, wlog, stderr, out1>>
    /\ UNCHANGED <<bibfile, templfile, mdfiles, writeOk>>

\* lines 132-140: write the page, then push its record on the index; nothing
\* can fail or be observed between a successful writeln! and the push, so the
\* two are one step.  A failed write leaves the file as File::create left it.
WriteOutput ==
    /\ pc = "write"
    /\ LET name == html_name(entries[i].key)
       IN  \E r \in IoResults :
             /\ Answers(writeOk[i], r)
             /\ writeOk' = [writeOk EXCEPT ![i] = r]
             /\ IF r.st = "Ok"
                THEN /\ out' = [out EXCEPT ![name] = File(writeln(cur.rendered_again))]
                     /\ wlog' = Append(wlog, [name |-> name, what |-> "page"])
                     /\ index' = Append(index, IndexRecord(name, entries[i].entry))
                     /\ i' = i + 1
                     /\ cur' = NoLocals
                     /\ pc' = "loop"
                ELSE Abort /\ UNCHANGED <<out, wlog, index, i, cur>>
    /\ UNCHANGED <<run, args, entries, hbs, out0, stderr, out1>>
    /\ UNCHANGED <<bibfile, templfile, mdfiles, createOk>>

\* lines 144-149: build the index and expand the template around it
BuildIndex ==
    /\ pc = "build_index"
    /\ LET r == hbs_render(hbs, index_title, make_index(index))
       IN  IF r.ok
           THEN cur' = [cur EXCEPT !.rendered_index = r.val] /\ pc' = "create_index"
           ELSE Abort /\ UNCHANGED cur
    /\ UNCHANGED <<run, args, entries, hbs, i, index, out, out0, wlog, stderr, out1>>
    /\ UNCHANGED envv

\* lines 152-154: File::create of <output_dir>/index.html
CreateIndex ==
    /\ pc = "create_index"
    /\ \E r \in IoResults :
         /\ Answers(createOk[i], r)
         /\ createOk' = [createOk EXCEPT ![i] = r]
         /\ IF r.st = "Ok"
            THEN out' = [out EXCEPT ![index_name] = File("")] /\ pc' = "write_index"
            ELSE Abort /\ UNCHANGED out
    /\ UNCHANGED <<run, args, entries, hbs, i, index, cur, out0, wlog, stderr, out1>>
    /\ UNCHANGED <<bibfile, templfile, mdfiles, writeOk>>

\* lines 155-156: write the index page; main returns
WriteIndex ==
    /\ pc = "write_index"
    /\ \E r \in IoResults :
         /\ Answers(writeOk[i], r)
         /\ writeOk' = [writeOk EXCEPT ![i] = r]
         /\ IF r.st = "Ok"
            THEN /\ out' = [out EXCEPT ![index_name] = File(writeln(cur.rendered_index))]
                 /\ wlog' = Append(wlog, [name |-> index_name, what |-> "index"])
                 /\ pc' = "done"
            ELSE Abort /\ UNCHANGED <<out, wlog>>
    /\ UNCHANGED <<run, args, entries, hbs, i, index, cur, out0, stderr, out1>>
    /\ UNCHANGED <<bibfile, templfile, mdfiles, createOk>>

\* the program is started again with the same arguments and inputs, over an
\* empty output directory
Restart ==
    /\ run = 1
    /\ pc \in {"done", "aborted"}
    /\ run' = 2
    /\ out1' = out
    /\ pc' = "start"
    /\ entries' = <<>>
    /\ hbs' = TemplGood
    /\ i' = 0
    /\ index' = <<>>
    /\ cur' = NoLocals
    /\ out' = EmptyDir
    /\ out0' = EmptyDir
    /\ wlog' = <<>>
    /\ stderr' = <<>>
    /\ UNCHANGED args
    /\ UNCHANGED envv

Next ==
    \/ CheckArgs \/ ReadBib \/ RegisterTemplate
    \/ LoopExit \/ SkipNoRecord \/ TakeEntry
    \/ OpenMd \/ RunPandoc \/ RenderPage \/ CreateOutput \/ WriteOutput
    \/ BuildIndex \/ CreateIndex \/ WriteIndex

Spec == Init /\ [][Next]_vars

\* main() is straight-line sequential code: a run that can take a step takes it
FairSpec == Spec /\ WF_vars(Next)

InitTwoRuns == Init /\ out = EmptyDir

NextTwoRuns == Next \/ Restart

SpecTwoRuns == InitTwoRuns /\ [][NextTwoRuns]_vars

-----------------------------------------------------------------------------
(* Vocabulary of the properties *)

Terminal == pc \in {"done", "aborted"}

Names(log) == {log[n].name : n \in 1..Len(log)}

Links(idx) == {idx[n][1] : n \in 1..Len(idx)}

\* the bibliography record of entry j is present
HasRecord(j) == entries[j].entry.some

\* what the markdown directory holds under the name of entry j
Content(j) == mdfiles[md_name(entries[j].key)]

\* entry j is one the pipeline is to skip: no record, or no content file
Absent(j) == ~HasRecord(j) \/ Content(j).st = "NotFound"

\* entry j has a record and its content file exists in the markdown directory
Annotated(j) == HasRecord(j) /\ Content(j).st \in {"PermissionDenied", "ReadErr", "Ok"}

\* entry j has a record and its content file was opened and read
Rendered(j) == HasRecord(j) /\ Content(j).st = "Ok"

\* the entry loop ran to its end without a fatal failure
LoopFinished == templfile.st = "Ok" /\ i > Len(entries)

\* the page of entry j and the index page, written out from the inputs
PageOf(j) ==
    LET e == entries[j].entry
    IN  hbs.head \o e.title \o hbs.mid
          \o "<header><h1>" \o e.title \o "</h1><cite>" \o e.author \o " (" \o e.year
          \o ") <em>" \o e.title \o "</em></cite></header>\n"
          \o "<p>" \o Content(j).text \o "</p>\n"
          \o hbs.tail \o "\n"

ItemOf(j) ==
    LET e == entries[j].entry
    IN  "<li>" \o e.author \o " (" \o e.year \o ") <a href=\"" \o entries[j].key
          \o ".html\">" \o e.title \o "</a>\n"

\* the items of the entries at the positions in S, in bibliography order
RECURSIVE ItemsFrom(_, _)
ItemsFrom(j, S) ==
    IF j > Len(entries) THEN ""
    ELSE (IF j \in S THEN ItemOf(j) ELSE "") \o ItemsFrom(j + 1, S)

AnnotatedSet == {j \in 1..Len(entries) : Annotated(j)}
RenderedSet  == {j \in 1..Len(entries) : Rendered(j)}

IndexPageOf(items) ==
    hbs.head \o "Annotated bibliography" \o hbs.mid \o intro \o items \o "</ul>"
        \o hbs.tail \o "\n"

IndexWritten ==
    /\ pc = "done"
    /\ out[index_name] = File(IndexPageOf(ItemsFrom(1, RenderedSet)))
    /\ index = <<>> => out[index_name] = File(IndexPageOf(""))

IndexStageFailed ==
    /\ pc = "aborted"
    /\ LoopFinished
    /\ hbs.partial \/ createOk[i].st = "Err" \/ writeOk[i].st = "Err"

-----------------------------------------------------------------------------
(* The properties *)

\* C1: an entry without a record, and an entry with a record but without a
\* content file, gets no output file <key>.html and no record in the index,
\* and the run does not abort on it.
C1_SkippedEntryLeavesNoTrace ==
    \A j \in 1..Len(entries) :
        Absent(j) =>
            /\ out[html_name(entries[j].key)] = out0[html_name(entries[j].key)]
            /\ html_name(entries[j].key) \notin Links(index)
            /\ ~(pc = "aborted" /\ i = j)

\* C2: after a run that completes normally the index page lists exactly the
\* entries that have a record and an existing content file, one item each, in
\* bibliography order, each linking to <key>.html.
C2_IndexListsAnnotatedEntries ==
    (pc = "done" /\ ArgsOk(args)) =>
        out[index_name] = File(IndexPageOf(ItemsFrom(1, AnnotatedSet)))

\* C3: in every state the records of the index accumulator are, one for one
\* and in order, the per-entry files the run has written successfully, each
\* of them present in the output directory, and no file has two records.
C3_IndexMatchesWrittenFiles ==
    LET pages == SelectSeq(wlog, LAMBDA w : w.what = "page")
    IN  /\ Len(index) = Len(pages)
        /\ \A r \in 1..Len(index) :
              /\ index[r][1] = pages[r].name
              /\ out[index[r][1]].exists
        /\ \A r, q \in 1..Len(index) : r # q => index[r][1] # index[q][1]

C3_Witness == pc = "done" /\ Len(index) >= 2

\* C4: a content file that exists but cannot be opened or read never makes
\* its entry a skip: the run aborts on it.
C4_OnlyNotFoundSkips ==
    \A j \in 1..Len(entries) :
        (HasRecord(j) /\ Content(j).st \in {"PermissionDenied", "ReadErr"}) =>
            (pc = "aborted" /\ i = j)

\* C5 as stated: once the entry loop has finished without a fatal failure,
\* the run ends with index.html written.
C5_LoopFinishedIndexWritten ==
    (Terminal /\ LoopFinished) => IndexWritten

\* C5 as amended: once the entry loop has finished without a fatal failure,
\* the run goes on to the index, whether or not an entry was rendered, and
\* ends either with index.html written (heading, description and an empty
\* list when nothing was rendered) or aborted by a failure of the index's
\* own template expansion, file creation or write.
C5_IndexBuiltAfterLoop ==
    LoopFinished ~> (IndexWritten \/ IndexStageFailed)

C5_Witness == pc = "done" /\ LoopFinished /\ Len(entries) >= 1 /\ index = <<>>

\* C6: after a run that completes normally, <key>.html holds the templated
\* page of every rendered entry and index.html holds the index page.
C6_OutputDirectoryContents ==
    (pc = "done" /\ ArgsOk(args)) =>
        /\ \A j \in 1..Len(entries) :
              Rendered(j) => out[html_name(entries[j].key)] = File(PageOf(j))
        /\ out[index_name] = File(IndexPageOf(ItemsFrom(1, RenderedSet)))

\* C7: with four arguments and a bibliography that cannot be opened, read or
\* parsed, the run aborts and the output directory is as it was found.
C7_NoOutputWithoutBibliography ==
    (Len(args) = 5 /\ bibfile.st \in {"OpenErr", "ReadErr", "ParseErr"}) =>
        /\ pc = "aborted"
        /\ out = out0
        /\ wlog = <<>>
        /\ templfile = Unknown

C7_Witness ==
    /\ pc = "aborted"
    /\ bibfile.st = "OpenErr"
    /\ \E n \in OutNames : out0[n].exists

C10_FailureLeavesPrefix ==
    (pc = "aborted" /\ 1 <= i /\ i <= Len(entries)) =>
        /\ Names(wlog) = {html_name(entries[j].key) : j \in {k \in 1..(i - 1) : Rendered(k)}}
        /\ \A j \in 1..(i - 1) :
              Rendered(j) => out[html_name(entries[j].key)] = File(PageOf(j))
        /\ index_name \notin Names(wlog)
        /\ \A j \in (i + 1)..Len(entries) :
              out[html_name(entries[j].key)] = out0[html_name(entries[j].key)]

====
